---- MODULE Spec2Model ----
(***************************************************************************)
(* ExportScore (src/app.py): the Streamlit session of the export-scoring   *)
(* dashboard.  One action is one user event, i.e. one execution of the     *)
(* script from top to bottom with that event's widget fired, followed by   *)
(* the re-execution that st.rerun() triggers when the handler calls it.    *)
(* Numbers are small naturals; a probability p in [0,1] is the integer     *)
(* 1000 * p.  An HS code and the filter text are sequences of digits.      *)
(***************************************************************************)
EXTENDS Integers, Sequences, FiniteSets, TLC

VARIABLES page, model, scaler, df_opportunities, selected_product_name,
          strategic_alignment, report, show_manual_form,
          search_hs, select_index,
          missing_features, X_to_predict, proba_succes,
          excel_data, downloaded

vars == <<page, model, scaler, df_opportunities, selected_product_name,
          strategic_alignment, report, show_manual_form,
          search_hs, select_index,
          missing_features, X_to_predict, proba_succes,
          excel_data, downloaded>>

session == <<page, model, scaler, df_opportunities, selected_product_name,
             strategic_alignment, report, show_manual_form>>

(***************************************************************************)
(* Bounds of the model: the rows of the dataset beyond which the manual    *)
(* form is no longer submitted, and the entries of the report beyond which *)
(* nothing is added.                                                       *)
(***************************************************************************)
MaxRows == 3

MaxReport == 2

(***************************************************************************)
(* Values.                                                                 *)
(***************************************************************************)
\* an empty spreadsheet cell, as pd.isnull sees it
NaN == -1

\* strategic_alignment before the user has set it
NoAlignment == -2

\* proba_succes of a run that did not reach predict_proba
NotComputed == -3

\* selected_product_name = None
NoProduct == "<None>"

\* model, scaler = None
NoArtifact == "<None>"

FEATURES_NAMES ==
    << "Croissance Maroc (% p.a.)",
       "ACR",
       "PCI",
       "Croissance Monde (% p.a.)",
       "Taille Marche (millier USD)",
       "Alignement stratégique" >>

IdColumns == {"Produit", "CODE SH"}

FeatureColumns == {FEATURES_NAMES[i] : i \in 1..6}

\* df_opportunities = None
NoneDF == [isNone |-> TRUE, columns |-> {}, rows |-> <<>>]

DataFrame(cols, rws) == [isNone |-> FALSE, columns |-> cols, rows |-> rws]

\* one spreadsheet row over the columns cols: name, HS code, the five
\* indicators v[1..5] in the order of FEATURES_NAMES, and the alignment cell
Row(cols, name, hs, v, align) ==
    [c \in cols |->
        CASE c = "Produit" -> name
          [] c = "CODE SH" -> hs
          [] c = FEATURES_NAMES[6] -> align
          [] OTHER -> v[CHOOSE i \in 1..5 : FEATURES_NAMES[i] = c]]

AllColumns == IdColumns \cup FeatureColumns

(***************************************************************************)
(* The inputs of the model: uploads, artifacts on disk, form values.       *)
(***************************************************************************)
\* st.file_uploader returns None until a file is uploaded
NoUpload == [kind |-> "none", columns |-> {}, rows |-> <<>>]

\* a file pd.read_excel raises on
CorruptUpload == [kind |-> "corrupt", columns |-> {}, rows |-> <<>>]

Xlsx(cols, rws) == [kind |-> "xlsx", columns |-> cols, rows |-> rws]

\* one product, PCI empty, no alignment cell
FileOne ==
    Xlsx(AllColumns, << Row(AllColumns, "b", <<1, 2>>, <<1, 1, NaN, 1, 1>>, NaN) >>)

\* two rows of the same name; each has an empty cell the other has a value for
FileDup ==
    Xlsx(AllColumns,
         << Row(AllColumns, "a", <<1, 2>>, <<2, 1, 3, 1, NaN>>, 0),
            Row(AllColumns, "a", <<2>>, <<1, NaN, NaN, 2, 4>>, 1) >>)

\* the prediction base without its 'CODE SH' column
FileNoCodeSH ==
    LET cols == AllColumns \ {"CODE SH"}
    IN  Xlsx(cols, << Row(cols, "b", <<>>, <<1, 1, 1, 1, 1>>, 1) >>)

\* the prediction base without its 'Produit' column
FileNoProduit ==
    LET cols == AllColumns \ {"Produit"}
    IN  Xlsx(cols, << Row(cols, "", <<1, 2>>, <<1, 1, 1, 1, 1>>, 1) >>)

\* a prediction base with its columns and no row
FileEmpty == Xlsx(AllColumns, <<>>)

TrainUploads == {NoUpload, Xlsx({}, <<>>)}

PredictUploads ==
    {NoUpload, CorruptUpload, FileEmpty, FileOne, FileDup, FileNoCodeSH,
     FileNoProduit}

\* what the manual form can be submitted with
ManualNames == {"", "b"}

ManualCode == <<3>>

\* the five number_inputs: the first and the third left at their default 0
ManualIndicators == {<<0, 2, 0, 4, 5>>}

\* what a number_input of the missing-data form can be submitted with
SuppliedValues == {0, 7}

\* the texts typed in the HS-code filter
Filters == {<<>>, <<1>>}

(***************************************************************************)
(* train_and_load: the three assignments happen in order and each one that *)
(* was reached stays in the session whatever the function returns.         *)
(***************************************************************************)
\* train_and_load with a column test that looks for 'Produit' only
train_and_load_produit_only(predict_file, model_pkl, scaler_pkl) ==
    IF ~model_pkl
    THEN [model |-> model, scaler |-> scaler, df |-> df_opportunities,
          success |-> FALSE]
    ELSE IF ~scaler_pkl
    THEN [model |-> "best_export_model.pkl", scaler |-> scaler,
          df |-> df_opportunities, success |-> FALSE]
    ELSE IF predict_file.kind = "corrupt"
    THEN [model |-> "best_export_model.pkl", scaler |-> "scaler.pkl",
          df |-> df_opportunities, success |-> FALSE]
    ELSE [model |-> "best_export_model.pkl", scaler |-> "scaler.pkl",
          df |-> DataFrame(predict_file.columns, predict_file.rows),
          success |-> "Produit" \in predict_file.columns]

\* train_and_load without the joblib.load of line 24
train_and_load_no_scaler(predict_file, model_pkl, scaler_pkl) ==
    IF ~model_pkl
    THEN [model |-> model, scaler |-> scaler, df |-> df_opportunities,
          success |-> FALSE]
    ELSE IF predict_file.kind = "corrupt"
    THEN [model |-> "best_export_model.pkl", scaler |-> scaler,
          df |-> df_opportunities, success |-> FALSE]
    ELSE [model |-> "best_export_model.pkl", scaler |-> scaler,
          df |-> DataFrame(predict_file.columns, predict_file.rows),
          success |-> IdColumns \subseteq predict_file.columns]

train_and_load(predict_file, model_pkl, scaler_pkl) ==
    IF ~model_pkl
    THEN [model |-> model, scaler |-> scaler, df |-> df_opportunities,
          success |-> FALSE]
    ELSE IF ~scaler_pkl
    THEN [model |-> "best_export_model.pkl", scaler |-> scaler,
          df |-> df_opportunities, success |-> FALSE]
    ELSE IF predict_file.kind = "corrupt"
    THEN [model |-> "best_export_model.pkl", scaler |-> "scaler.pkl",
          df |-> df_opportunities, success |-> FALSE]
    ELSE [model |-> "best_export_model.pkl", scaler |-> "scaler.pkl",
          df |-> DataFrame(predict_file.columns, predict_file.rows),
          success |-> IdColumns \subseteq predict_file.columns]

(***************************************************************************)
(* Sidebar: the HS-code filter and the product selectbox.                  *)
(***************************************************************************)
\* str.contains: sub occurs in s
Contains(s, sub) ==
    \E i \in 0..(Len(s) - Len(sub)) : SubSeq(s, i + 1, i + Len(sub)) = sub

RECURSIVE FilterRows(_, _)
FilterRows(rws, text) ==
    IF rws = <<>> THEN <<>>
    ELSE LET rest == FilterRows(Tail(rws), text)
         IN  IF Contains(Head(rws)["CODE SH"], text)
             THEN <<Head(rws)>> \o rest
             ELSE rest

\* product_list: the names of the rows the filter keeps, in dataset order
product_list(df, text) ==
    LET kept == IF text # <<>> THEN FilterRows(df.rows, text) ELSE df.rows
    IN  [i \in 1..Len(kept) |-> kept[i]["Produit"]]

\* a selectbox that returns an empty label when it has no options
selectbox_empty_label(options, index) ==
    IF options = <<>> THEN "" ELSE options[index]

\* st.selectbox: the option at the widget's index, None without options
selectbox(options, index) ==
    IF options = <<>> THEN NoProduct ELSE options[index]

\* a new selectbox that shows its last option
FirstIndex_last(options) == Len(options)

\* a selectbox that is drawn for the first time, or with other options than
\* in the previous run, is a new widget and shows its first option
FirstIndex(options) == IF options = <<>> THEN 0 ELSE 1

(***************************************************************************)
(* Main body: the row the selection resolves to, the missing indicators,   *)
(* the feature vector and the probability.                                 *)
(***************************************************************************)
\* the index of the rows whose 'Produit' equals name
product_index(df, name) ==
    {i \in 1..Len(df.rows) : df.rows[i]["Produit"] = name}

\* the guard of the main body: a dataset, a truthy selection, a matching row
HasSelectedRow(df, name) ==
    /\ ~df.isNone
    /\ name # NoProduct
    /\ name # ""
    /\ "Produit" \in df.columns
    /\ product_index(df, name) # {}

Min(S) == CHOOSE x \in S : \A y \in S : x <= y

\* .iloc[0] of the matching rows
selected_row(df, name) == df.rows[Min(product_index(df, name))]

\* prediction_df that keeps the alignment cell of the row when it has one
prediction_df_keep_cell(df, name, alignment) ==
    LET r == selected_row(df, name)
    IN  [c \in (DOMAIN r) \cup {FEATURES_NAMES[6]} |->
            IF c \in DOMAIN r THEN r[c] ELSE alignment]

\* the selected row with its alignment cell overwritten by the session's
prediction_df(df, name, alignment) ==
    LET r == selected_row(df, name)
    IN  [c \in (DOMAIN r) \cup {FEATURES_NAMES[6]} |->
            IF c = FEATURES_NAMES[6] THEN alignment ELSE r[c]]

RECURSIVE MissingFrom(_, _)
MissingFrom(r, i) ==
    IF i > Len(FEATURES_NAMES) THEN <<>>
    ELSE LET feature == FEATURES_NAMES[i]
         IN  IF /\ (feature \notin DOMAIN r \/ r[feature] = NaN)
                /\ feature # "Alignement stratégique"
             THEN <<feature>> \o MissingFrom(r, i + 1)
             ELSE MissingFrom(r, i + 1)

\* the loop started one feature too late
MissingFeatures_skip_first(r) == MissingFrom(r, 2)

\* the loop over FEATURES_NAMES that collects missing_features
MissingFeatures(r) == MissingFrom(r, 1)

\* prediction_df[FEATURES_NAMES]
FeatureVector(r) == [i \in 1..Len(FEATURES_NAMES) |-> r[FEATURES_NAMES[i]]]

Sum5(X) == X[1] + X[2] + X[3] + X[4] + X[5]

\* scaler.transform followed by model.predict_proba(...)[0][1]: a fixed
\* function of the six features with values in 0..1000
predict_proba(X) ==
    LET p == 50 * Sum5(X) + 300 * X[6]
    IN  IF p > 1000 THEN 1000 ELSE p

\* main_body without the test of line 158 on strategic_alignment
main_body_no_alignment_test(df, name, alignment, mdl, scl) ==
    IF ~HasSelectedRow(df, name)
    THEN [missing_features |-> <<>>, X_to_predict |-> <<>>,
          proba_succes |-> NotComputed]
    ELSE LET r == prediction_df(df, name, alignment)
             missing == MissingFeatures(r)
         IN  IF missing # <<>>
             THEN [missing_features |-> missing, X_to_predict |-> <<>>,
                   proba_succes |-> NotComputed]
             ELSE [missing_features |-> <<>>, X_to_predict |-> FeatureVector(r),
                   proba_succes |-> predict_proba(FeatureVector(r))]

\* what one execution of the main body computes from the session
main_body(df, name, alignment, mdl, scl) ==
    IF ~HasSelectedRow(df, name) \/ alignment = NoAlignment
    THEN [missing_features |-> <<>>, X_to_predict |-> <<>>,
          proba_succes |-> NotComputed]
    ELSE LET r == prediction_df(df, name, alignment)
             missing == MissingFeatures(r)
         IN  IF missing # <<>>
             THEN [missing_features |-> missing, X_to_predict |-> <<>>,
                   proba_succes |-> NotComputed]
             ELSE IF mdl = NoArtifact \/ scl = NoArtifact
             THEN [missing_features |-> <<>>, X_to_predict |-> FeatureVector(r),
                   proba_succes |-> NotComputed]
             ELSE [missing_features |-> <<>>, X_to_predict |-> FeatureVector(r),
                   proba_succes |-> predict_proba(FeatureVector(r))]

\* the columns of pd.DataFrame(report): the keys of an entry, in their order
ReportColumns == <<"PRODUIT", "CODE SH", "ALIGNEMENT", "SCORE FINAL", "VERDICT">>

\* the content of no file
NoData == <<>>

\* the sheet written with the entries in the reverse order
convert_df_to_excel_reversed(entries) ==
    <<ReportColumns>>
    \o [i \in 1..Len(entries) |->
           [c \in 1..Len(ReportColumns) |->
               entries[Len(entries) + 1 - i][ReportColumns[c]]]]

\* the sheet 'Rapport' of the file: the header line, then one line per entry
\* with its cells in the order of the columns (index=False)
convert_df_to_excel(entries) ==
    <<ReportColumns>>
    \o [i \in 1..Len(entries) |->
           [c \in 1..Len(ReportColumns) |-> entries[i][ReportColumns[c]]]]

\* the foot of the page: the data the download button carries
ReportDisplay ==
    excel_data' = IF page' = "dashboard" /\ report' # <<>>
                  THEN convert_df_to_excel(report')
                  ELSE NoData

\* the script body runs on the session as the handlers of the run left it
Body ==
    LET out == main_body(df_opportunities', selected_product_name',
                         strategic_alignment', model', scaler')
    IN  /\ missing_features' = out.missing_features
        /\ X_to_predict' = out.X_to_predict
        /\ proba_succes' = out.proba_succes
        /\ ReportDisplay

\* the body of a run that is not a click on the download button: the browser
\* receives no file
MainBody ==
    /\ Body
    /\ downloaded' = NoData

\* the sidebar of a dashboard run whose selectbox is a new widget
FreshSelectbox ==
    LET options == product_list(df_opportunities', search_hs')
    IN  /\ select_index' = FirstIndex(options)
        /\ selected_product_name' = selectbox(options, FirstIndex(options))

(***************************************************************************)
(* Initial state: lines 39-46 on an empty session.                         *)
(***************************************************************************)
Init ==
    /\ page = "config"
    /\ model = NoArtifact
    /\ scaler = NoArtifact
    /\ df_opportunities = NoneDF
    /\ selected_product_name = NoProduct
    /\ strategic_alignment = NoAlignment
    /\ report = <<>>
    /\ show_manual_form = FALSE
    /\ search_hs = <<>>
    /\ select_index = 0
    /\ missing_features = <<>>
    /\ X_to_predict = <<>>
    /\ proba_succes = NotComputed
    /\ excel_data = NoData
    /\ downloaded = NoData

(***************************************************************************)
(* "Lancer l'Analyse" on the configuration page.                           *)
(***************************************************************************)
ConfigSubmit(train_file, predict_file, model_pkl, scaler_pkl) ==
    /\ page = "config"
    /\ UNCHANGED <<strategic_alignment, report, show_manual_form, search_hs>>
    /\ IF train_file.kind # "none" /\ predict_file.kind # "none"
       THEN LET r == train_and_load(predict_file, model_pkl, scaler_pkl)
            IN  /\ model' = r.model
                /\ scaler' = r.scaler
                /\ df_opportunities' = r.df
                /\ IF r.success
                   THEN /\ page' = "dashboard"
                        /\ FreshSelectbox
                   ELSE UNCHANGED <<page, selected_product_name, select_index>>
       ELSE UNCHANGED <<page, model, scaler, df_opportunities,
                        selected_product_name, select_index>>
    /\ MainBody

\* the reset that deletes every key but 'report'
Reset_keeps_report ==
    /\ page = "dashboard"
    /\ page' = "config"
    /\ model' = NoArtifact
    /\ scaler' = NoArtifact
    /\ df_opportunities' = NoneDF
    /\ selected_product_name' = NoProduct
    /\ strategic_alignment' = NoAlignment
    /\ report' = report
    /\ show_manual_form' = FALSE
    /\ search_hs' = <<>>
    /\ select_index' = 0
    /\ MainBody

(***************************************************************************)
(* "Recharger de nouveaux fichiers": every key deleted, then lines 39-46.  *)
(***************************************************************************)
Reset ==
    /\ page = "dashboard"
    /\ page' = "config"
    /\ model' = NoArtifact
    /\ scaler' = NoArtifact
    /\ df_opportunities' = NoneDF
    /\ selected_product_name' = NoProduct
    /\ strategic_alignment' = NoAlignment
    /\ report' = <<>>
    /\ show_manual_form' = FALSE
    /\ search_hs' = <<>>
    /\ select_index' = 0
    /\ MainBody

(***************************************************************************)
(* The sidebar of the dashboard.                                           *)
(***************************************************************************)
\* "Nouvelle Opportunité Manuelle": the widgets of the branch that is not
\* drawn lose their state
ToggleManualForm ==
    /\ page = "dashboard"
    /\ show_manual_form' = ~show_manual_form
    /\ search_hs' = <<>>
    /\ UNCHANGED <<page, model, scaler, df_opportunities, strategic_alignment,
                   report>>
    /\ IF show_manual_form'
       THEN /\ select_index' = 0
            /\ UNCHANGED selected_product_name
       ELSE FreshSelectbox
    /\ MainBody

\* the filter change that leaves the selection of before in place
SetFilter_keeps_selection(text) ==
    /\ page = "dashboard"
    /\ ~show_manual_form
    /\ text # search_hs
    /\ search_hs' = text
    /\ UNCHANGED <<page, model, scaler, df_opportunities, strategic_alignment,
                   report, show_manual_form, select_index,
                   selected_product_name>>
    /\ MainBody

\* a text typed in "Filtrer par Code SH..."
SetFilter(text) ==
    /\ page = "dashboard"
    /\ ~show_manual_form
    /\ text # search_hs
    /\ search_hs' = text
    /\ UNCHANGED <<page, model, scaler, df_opportunities, strategic_alignment,
                   report, show_manual_form>>
    /\ LET before == product_list(df_opportunities, search_hs)
           options == product_list(df_opportunities, text)
           index == IF options = before THEN select_index
                    ELSE FirstIndex(options)
       IN  /\ select_index' = index
           /\ selected_product_name' = selectbox(options, index)
    /\ MainBody

\* the selection change that also forgets the alignment
SelectProduct_forgets_alignment(index) ==
    /\ page = "dashboard"
    /\ ~show_manual_form
    /\ index \in 1..Len(product_list(df_opportunities, search_hs))
    /\ index # select_index
    /\ select_index' = index
    /\ selected_product_name' =
          selectbox(product_list(df_opportunities, search_hs), index)
    /\ strategic_alignment' = NoAlignment
    /\ UNCHANGED <<page, model, scaler, df_opportunities,
                   report, show_manual_form, search_hs>>
    /\ MainBody

\* another option picked in the selectbox
SelectProduct(index) ==
    /\ page = "dashboard"
    /\ ~show_manual_form
    /\ index \in 1..Len(product_list(df_opportunities, search_hs))
    /\ index # select_index
    /\ select_index' = index
    /\ selected_product_name' =
          selectbox(product_list(df_opportunities, search_hs), index)
    /\ UNCHANGED <<page, model, scaler, df_opportunities, strategic_alignment,
                   report, show_manual_form, search_hs>>
    /\ MainBody

\* "Non (0)" / "Oui (1)"
SetAlignment(value) ==
    /\ page = "dashboard"
    /\ ~show_manual_form
    /\ strategic_alignment' = value
    /\ UNCHANGED <<page, model, scaler, df_opportunities,
                   selected_product_name, report, show_manual_form,
                   search_hs, select_index>>
    /\ MainBody

(***************************************************************************)
(* "Ajouter & Analyser" of the manual form.                                *)
(***************************************************************************)
\* the cells of row r over the columns cols, empty where r has no such column
Reindex(r, cols) == [c \in cols |-> IF c \in DOMAIN r THEN r[c] ELSE NaN]

\* pd.concat([df, new]): the new row after the rows of the dataset
concat_new_last(new, df) ==
    LET cols == (DOMAIN new) \cup df.columns
    IN  DataFrame(cols,
                  [i \in 1..Len(df.rows) |-> Reindex(df.rows[i], cols)]
                  \o <<Reindex(new, cols)>>)

\* pd.concat([new, df], ignore_index=True)
concat(new, df) ==
    LET cols == (DOMAIN new) \cup df.columns
    IN  DataFrame(cols,
                  <<Reindex(new, cols)>>
                  \o [i \in 1..Len(df.rows) |-> Reindex(df.rows[i], cols)])

\* one row of .fillna(0); the name and the HS code of a row are never empty
\* in the uploads of the model
FillRow(r) ==
    [c \in DOMAIN r |->
        IF c \in FeatureColumns /\ r[c] = NaN THEN 0 ELSE r[c]]

\* .fillna(0): every empty cell of the whole frame becomes 0
fillna(df) ==
    DataFrame(df.columns, [i \in 1..Len(df.rows) |-> FillRow(df.rows[i])])

ManualSubmit(nom_produit, indicators, alignement_manual) ==
    /\ page = "dashboard"
    /\ show_manual_form
    /\ Len(df_opportunities.rows) < MaxRows
    /\ LET new_product_data ==
               Row(AllColumns, nom_produit, ManualCode, indicators,
                   alignement_manual)
       IN  df_opportunities' = fillna(concat(new_product_data, df_opportunities))
    /\ strategic_alignment' = alignement_manual
    /\ show_manual_form' = FALSE
    \* st.rerun(): the sidebar draws the filter and the selectbox anew, and
    \* the selectbox overwrites the selected_product_name of line 115
    /\ search_hs' = <<>>
    /\ FreshSelectbox
    /\ UNCHANGED <<page, model, scaler, report>>
    /\ MainBody

(***************************************************************************)
(* "Lancer la prédiction avec les nouvelles valeurs" of missing_data_form. *)
(***************************************************************************)
Range(seq) == {seq[i] : i \in 1..Len(seq)}

\* the assignment writing the default of the number_input, not its value
SetValues_default(df, index, new_values) ==
    LET cols == df.columns \cup DOMAIN new_values
    IN  DataFrame(cols,
            [i \in 1..Len(df.rows) |->
                [c \in cols |->
                    IF i \in index /\ c \in DOMAIN new_values
                    THEN 0
                    ELSE Reindex(df.rows[i], cols)[c]]])

\* the assignment taking the labels of product_index one row too far
SetValues_next_row(df, index, new_values) ==
    LET cols == df.columns \cup DOMAIN new_values
    IN  DataFrame(cols,
            [i \in 1..Len(df.rows) |->
                [c \in cols |->
                    IF (i - 1) \in index /\ c \in DOMAIN new_values
                    THEN new_values[c]
                    ELSE Reindex(df.rows[i], cols)[c]]])

\* df.loc[product_index, feature] = value for every entered value
SetValues(df, index, new_values) ==
    LET cols == df.columns \cup DOMAIN new_values
    IN  DataFrame(cols,
            [i \in 1..Len(df.rows) |->
                [c \in cols |->
                    IF i \in index /\ c \in DOMAIN new_values
                    THEN new_values[c]
                    ELSE Reindex(df.rows[i], cols)[c]]])

SubmitMissing(new_values) ==
    /\ missing_features # <<>>
    /\ DOMAIN new_values = Range(missing_features)
    /\ LET index == product_index(df_opportunities, selected_product_name)
       IN  df_opportunities' =
              IF index # {}
              THEN SetValues(df_opportunities, index, new_values)
              ELSE df_opportunities
    /\ UNCHANGED <<page, model, scaler, selected_product_name,
                   strategic_alignment, report, show_manual_form,
                   search_hs, select_index>>
    /\ MainBody

\* one number_input per missing feature, then the submit button
MissingDataForm ==
    \E new_values \in [Range(missing_features) -> SuppliedValues] :
        SubmitMissing(new_values)

(***************************************************************************)
(* "Ajouter au Rapport".                                                   *)
(***************************************************************************)
\* f"{proba_succes:.1%}": the percentage and its first decimal
FormatPercent(p) == <<p \div 10, p % 10>>

\* the verdict shown under the gauge: st.success or st.error
verdict_display(p) == IF p > 500 THEN "ÉLEVÉ" ELSE "FAIBLE"

\* the verdict of the entry with the threshold included
Verdict_at_least(p) == IF p >= 500 THEN "ÉLEVÉ" ELSE "FAIBLE"

Verdict(p) == IF p > 500 THEN "ÉLEVÉ" ELSE "FAIBLE"

\* the entry with the alignment cell of the row for its ALIGNEMENT label
report_item_row_alignment ==
    ("PRODUIT" :> selected_product_name)
    @@ ("CODE SH" :>
           selected_row(df_opportunities, selected_product_name)["CODE SH"])
    @@ ("ALIGNEMENT" :>
           IF selected_row(df_opportunities, selected_product_name)
                 [FEATURES_NAMES[6]] = 1
           THEN "OUI" ELSE "NON")
    @@ ("SCORE FINAL" :> FormatPercent(proba_succes))
    @@ ("VERDICT" :> Verdict(proba_succes))

report_item ==
    ("PRODUIT" :> selected_product_name)
    @@ ("CODE SH" :>
           selected_row(df_opportunities, selected_product_name)["CODE SH"])
    @@ ("ALIGNEMENT" :> IF strategic_alignment = 1 THEN "OUI" ELSE "NON")
    @@ ("SCORE FINAL" :> FormatPercent(proba_succes))
    @@ ("VERDICT" :> Verdict(proba_succes))

\* the handler inserting the new entry in front of the report
AddToReport_in_front ==
    /\ proba_succes # NotComputed
    /\ Len(report) < MaxReport
    /\ report' = <<report_item>> \o report
    /\ UNCHANGED <<page, model, scaler, df_opportunities,
                   selected_product_name, strategic_alignment,
                   show_manual_form, search_hs, select_index>>
    /\ MainBody

AddToReport ==
    /\ proba_succes # NotComputed
    /\ Len(report) < MaxReport
    /\ report' = Append(report, report_item)
    /\ UNCHANGED <<page, model, scaler, df_opportunities,
                   selected_product_name, strategic_alignment,
                   show_manual_form, search_hs, select_index>>
    /\ MainBody

(***************************************************************************)
(* The session.                                                            *)
(***************************************************************************)
(***************************************************************************)
(* "Télécharger le Rapport Excel".                                         *)
(***************************************************************************)
\* a click on the download button: the browser receives the data the button
\* carries and the script runs again on the same session
Download ==
    /\ page = "dashboard"
    /\ report # <<>>
    /\ downloaded' = excel_data
    /\ UNCHANGED <<page, model, scaler, df_opportunities,
                   selected_product_name, strategic_alignment, report,
                   show_manual_form, search_hs, select_index>>
    /\ Body

Next ==
    \/ \E train_file \in TrainUploads, predict_file \in PredictUploads,
          model_pkl \in BOOLEAN, scaler_pkl \in BOOLEAN :
          ConfigSubmit(train_file, predict_file, model_pkl, scaler_pkl)
    \/ Reset
    \/ ToggleManualForm
    \/ \E text \in Filters : SetFilter(text)
    \/ \E index \in 1..MaxRows : SelectProduct(index)
    \/ \E value \in {0, 1} : SetAlignment(value)
    \/ \E nom_produit \in ManualNames, indicators \in ManualIndicators,
          alignement_manual \in {0, 1} :
          ManualSubmit(nom_produit, indicators, alignement_manual)
    \/ MissingDataForm
    \/ AddToReport
    \/ Download

Spec == Init /\ [][Next]_vars

(***************************************************************************)
(* Feature assembly on its own: one run of the main body on a dashboard    *)
(* whose dataset is a single row, for every way the five indicators and    *)
(* the alignment cell of that row can be a missing column, an empty cell   *)
(* or a value, and for both alignments of the session.                     *)
(***************************************************************************)
\* the value of the i-th indicator where the row has one
CellValue(i) == 10 + i

AssembleRows ==
    {Row(IdColumns \cup cols, "p", <<1, 2>>,
         [i \in 1..5 |-> IF FEATURES_NAMES[i] \in empty THEN NaN ELSE CellValue(i)],
         align) :
        cols \in SUBSET FeatureColumns,
        empty \in SUBSET {FEATURES_NAMES[i] : i \in 1..5},
        align \in {NaN, 0, 1}}

InitAssemble ==
    /\ page = "dashboard"
    /\ model = "best_export_model.pkl"
    /\ scaler = "scaler.pkl"
    /\ \E r \in AssembleRows : df_opportunities = DataFrame(DOMAIN r, <<r>>)
    /\ selected_product_name = "p"
    /\ strategic_alignment \in {0, 1}
    /\ report = <<>>
    /\ show_manual_form = FALSE
    /\ search_hs = <<>>
    /\ select_index = 1
    /\ missing_features = <<>>
    /\ X_to_predict = <<>>
    /\ proba_succes = NotComputed
    /\ excel_data = NoData
    /\ downloaded = NoData

\* the main body has run: it filled the missing list or it predicted
Assembled == missing_features # <<>> \/ proba_succes # NotComputed

Assemble ==
    /\ ~Assembled
    /\ UNCHANGED <<page, model, scaler, df_opportunities,
                   selected_product_name, strategic_alignment, report,
                   show_manual_form, search_hs, select_index>>
    /\ MainBody

NextAssemble == Assemble

SpecAssemble == InitAssemble /\ [][NextAssemble]_vars

(***************************************************************************)
(* Properties.                                                             *)
(***************************************************************************)
\* the cell of feature f is absent on row r: no such column, or empty
Absent(r, f) == f \notin DOMAIN r \/ r[f] = NaN

\* the indicators other than the alignment that are absent on row r
AbsentIndicators(r) ==
    {FEATURES_NAMES[i] : i \in {j \in 1..5 : Absent(r, FEATURES_NAMES[j])}}

\* the position of feature f in FEATURES_NAMES
Position(f) == CHOOSE i \in 1..Len(FEATURES_NAMES) : FEATURES_NAMES[i] = f

\* the row the current selection resolves to
CurrentRow == selected_row(df_opportunities, selected_product_name)

\* a configuration submit with both uploads, both artifacts on disk, a
\* readable prediction base and its two identifier columns
ValidSubmit(train_file, predict_file, model_pkl, scaler_pkl) ==
    /\ train_file.kind # "none"
    /\ predict_file.kind = "xlsx"
    /\ model_pkl
    /\ scaler_pkl
    /\ IdColumns \subseteq predict_file.columns

\* C1: the page becomes 'dashboard' only by a configuration submit with both
\* uploads present, both artifacts loading and a prediction base that has
\* the columns 'Produit' and 'CODE SH'; after any other configuration submit
\* the page is still 'config'.
C1_DashboardOnlyByValidSubmit ==
    [][ /\ (page = "config" /\ page' = "dashboard")
           => \E train_file \in TrainUploads, predict_file \in PredictUploads,
                 model_pkl \in BOOLEAN, scaler_pkl \in BOOLEAN :
                 /\ ValidSubmit(train_file, predict_file, model_pkl, scaler_pkl)
                 /\ ConfigSubmit(train_file, predict_file, model_pkl, scaler_pkl)
        /\ \A train_file \in TrainUploads, predict_file \in PredictUploads,
              model_pkl \in BOOLEAN, scaler_pkl \in BOOLEAN :
              ( /\ ConfigSubmit(train_file, predict_file, model_pkl, scaler_pkl)
                /\ ~ValidSubmit(train_file, predict_file, model_pkl, scaler_pkl) )
              => page' = "config"
      ]_vars

\* a submit of a base without 'CODE SH' has left its frame in the session
\* and the page on 'config'
C1_Witness ==
    /\ page = "config"
    /\ ~df_opportunities.isNone
    /\ "CODE SH" \notin df_opportunities.columns

\* C2: a manual-entry merge leaves every cell of every row that was already
\* in the dataset as it was, an empty indicator cell included.
C2_MergeKeepsOldRows ==
    [][ (\E nom_produit \in ManualNames, indicators \in ManualIndicators,
            alignement_manual \in {0, 1} :
            ManualSubmit(nom_produit, indicators, alignement_manual))
        => \A k \in 1..Len(df_opportunities.rows) :
              /\ df_opportunities'.rows[k + 1] = df_opportunities.rows[k]
              /\ AbsentIndicators(df_opportunities'.rows[k + 1])
                    = AbsentIndicators(df_opportunities.rows[k])
      ]_vars

\* C3: a probability is computed only on the dashboard, for a selection that
\* resolves to a row, with the alignment set to 0 or 1 and none of the five
\* indicators of that row absent.
C3_PredictionGate ==
    proba_succes # NotComputed
    => /\ page = "dashboard"
       /\ HasSelectedRow(df_opportunities, selected_product_name)
       /\ strategic_alignment \in {0, 1}
       /\ AbsentIndicators(CurrentRow) = {}

\* a probability has been computed for an imported row whose empty cell was
\* filled in
C3_Witness ==
    /\ proba_succes # NotComputed
    /\ page = "dashboard"
    /\ selected_product_name = "b"
    /\ CurrentRow["CODE SH"] = <<1, 2>>

\* C4: assembly reports exactly the absent ones of the five indicators, in
\* the order of FEATURES_NAMES, and predicts exactly when none is absent.
C4_MissingExactlyAbsent ==
    Assembled
    => /\ Range(missing_features) = AbsentIndicators(CurrentRow)
       /\ \A a, b \in 1..Len(missing_features) :
             a < b => Position(missing_features[a]) < Position(missing_features[b])
       /\ (missing_features = <<>>) <=> (AbsentIndicators(CurrentRow) = {})
       /\ (missing_features = <<>>) <=> (proba_succes # NotComputed)

\* assembly has reported the first and the last indicator, one as an empty
\* cell and one as a column the frame does not have
C4_Witness ==
    /\ missing_features = <<FEATURES_NAMES[1], FEATURES_NAMES[5]>>
    /\ FEATURES_NAMES[1] \in DOMAIN CurrentRow
    /\ FEATURES_NAMES[5] \notin DOMAIN CurrentRow

\* C5: when assembly succeeds the sixth feature is the alignment of the
\* session whatever the alignment cell of the row, and the alignment is
\* never in the missing list.
C5_AlignmentFromSession ==
    /\ FEATURES_NAMES[6] \notin Range(missing_features)
    /\ proba_succes # NotComputed
       => /\ Len(X_to_predict) = 6
          /\ X_to_predict[6] = strategic_alignment
          /\ \A i \in 1..5 : X_to_predict[i] = CurrentRow[FEATURES_NAMES[i]]

\* a prediction for a row whose alignment cell is 1 under a session
\* alignment of 0
C5_Witness ==
    /\ proba_succes # NotComputed
    /\ strategic_alignment = 0
    /\ FEATURES_NAMES[6] \in DOMAIN CurrentRow
    /\ CurrentRow[FEATURES_NAMES[6]] = 1

\* row r with the entered values in the cells of their features
WithValues(r, new_values) ==
    [c \in DOMAIN r |-> IF c \in DOMAIN new_values THEN new_values[c] ELSE r[c]]

\* C6: after the missing-data form is submitted the stored row holds the
\* entered values, and the retried assembly succeeds with the entered value
\* at each position that was missing and the row's former value elsewhere.
C6_FilledThenScored ==
    [][ \A new_values \in [Range(missing_features) -> SuppliedValues] :
           SubmitMissing(new_values)
           => /\ Len(df_opportunities'.rows) = Len(df_opportunities.rows)
              /\ selected_row(df_opportunities', selected_product_name)
                    = WithValues(CurrentRow, new_values)
              /\ missing_features' = <<>>
              /\ proba_succes' # NotComputed
              /\ \A i \in 1..5 :
                    X_to_predict'[i] =
                       IF FEATURES_NAMES[i] \in DOMAIN new_values
                       THEN new_values[FEATURES_NAMES[i]]
                       ELSE CurrentRow[FEATURES_NAMES[i]]
      ]_vars

\* the value that only the missing-data form puts in a cell
Entered == CHOOSE v \in SuppliedValues : v # 0

\* the imported product 'b' is scored with the PCI entered in the form
C6_Witness ==
    /\ proba_succes # NotComputed
    /\ selected_product_name = "b"
    /\ CurrentRow["CODE SH"] = <<1, 2>>
    /\ X_to_predict[3] = Entered

\* the product names of the model
ProductNames == {"a", "b"}

\* a step of the reset button
IsReset == page = "dashboard" /\ page' = "config"

\* a step of the dashboard other than the reset
DashboardStep == page = "dashboard" /\ page' = "dashboard"

\* a manual-entry submit of a record named name
MergeOf(name) ==
    \E indicators \in ManualIndicators, alignement_manual \in {0, 1} :
        ManualSubmit(name, indicators, alignement_manual)

\* C7 as stated: from the submit of the missing-data form on and until a
\* reset, the row a product name resolves to holds the entered values and
\* none of its indicators that had a value is empty.
C7_EnteredValuesForever ==
    [][ /\ \A new_values \in [Range(missing_features) -> SuppliedValues] :
              SubmitMissing(new_values)
              => selected_row(df_opportunities', selected_product_name)
                    = WithValues(CurrentRow, new_values)
        /\ DashboardStep
           => \A name \in ProductNames, i \in 1..5 :
                 HasSelectedRow(df_opportunities, name)
                 => /\ HasSelectedRow(df_opportunities', name)
                    /\ selected_row(df_opportunities, name)[FEATURES_NAMES[i]] = Entered
                       => selected_row(df_opportunities', name)[FEATURES_NAMES[i]] = Entered
                    /\ selected_row(df_opportunities, name)[FEATURES_NAMES[i]] # NaN
                       => selected_row(df_opportunities', name)[FEATURES_NAMES[i]] # NaN
      ]_vars

\* C7 as amended: the same, except that a manual-entry submit of a record of
\* that name puts the new record first, and the name then resolves to it.
C7_EnteredValuesUntilShadowed ==
    [][ /\ \A new_values \in [Range(missing_features) -> SuppliedValues] :
              SubmitMissing(new_values)
              => selected_row(df_opportunities', selected_product_name)
                    = WithValues(CurrentRow, new_values)
        /\ DashboardStep
           => \A name \in ProductNames, i \in 1..5 :
                 HasSelectedRow(df_opportunities, name)
                 => /\ HasSelectedRow(df_opportunities', name)
                    /\ ( /\ selected_row(df_opportunities, name)[FEATURES_NAMES[i]] = Entered
                         /\ ~MergeOf(name) )
                       => selected_row(df_opportunities', name)[FEATURES_NAMES[i]] = Entered
                    /\ selected_row(df_opportunities, name)[FEATURES_NAMES[i]] # NaN
                       => selected_row(df_opportunities', name)[FEATURES_NAMES[i]] # NaN
      ]_vars

\* 'b' is scored with its entered PCI after a manual record of another name
\* was merged in front of it and 'b' was selected again
C7_Witness ==
    /\ Len(df_opportunities.rows) >= 2
    /\ df_opportunities.rows[1]["CODE SH"] = ManualCode
    /\ df_opportunities.rows[1]["Produit"] # "b"
    /\ selected_product_name = "b"
    /\ proba_succes # NotComputed
    /\ X_to_predict[3] = Entered

\* C8: a manual-entry submit puts the new record first with the form's
\* values in its five indicators (0 where the default was left), none of
\* them empty, adds exactly one row and keeps the other rows in their order.
C8_MergeAtFront ==
    [][ \A nom_produit \in ManualNames, indicators \in ManualIndicators,
           alignement_manual \in {0, 1} :
           ManualSubmit(nom_produit, indicators, alignement_manual)
           => /\ Len(df_opportunities'.rows) = Len(df_opportunities.rows) + 1
              /\ df_opportunities'.rows[1]["Produit"] = nom_produit
              /\ df_opportunities'.rows[1]["CODE SH"] = ManualCode
              /\ \A i \in 1..5 :
                    /\ df_opportunities'.rows[1][FEATURES_NAMES[i]] = indicators[i]
                    /\ df_opportunities'.rows[1][FEATURES_NAMES[i]] # NaN
              /\ \A k \in 1..Len(df_opportunities.rows) :
                    /\ df_opportunities'.rows[k + 1]["Produit"]
                          = df_opportunities.rows[k]["Produit"]
                    /\ df_opportunities'.rows[k + 1]["CODE SH"]
                          = df_opportunities.rows[k]["CODE SH"]
      ]_vars

\* a manual record with two defaults left, in front of the two imported
\* rows of FileDup in their order
C8_Witness ==
    /\ Len(df_opportunities.rows) = 3
    /\ df_opportunities.rows[1]["CODE SH"] = ManualCode
    /\ df_opportunities.rows[1][FEATURES_NAMES[1]] = 0
    /\ df_opportunities.rows[1][FEATURES_NAMES[5]] = 5
    /\ df_opportunities.rows[2]["CODE SH"] = <<1, 2>>
    /\ df_opportunities.rows[3]["CODE SH"] = <<2>>

C10_ResetClearsSession ==
    [][ IsReset
        => /\ page' = "config"
           /\ model' = NoArtifact
           /\ scaler' = NoArtifact
           /\ df_opportunities' = NoneDF
           /\ selected_product_name' = NoProduct
           /\ strategic_alignment' = NoAlignment
           /\ report' = <<>>
           /\ show_manual_form' = FALSE
      ]_vars

\* a dashboard on which the reset button acts with no field of the session
\* at its initial value
C10_Witness ==
    /\ page = "dashboard"
    /\ model # NoArtifact
    /\ scaler # NoArtifact
    /\ ~df_opportunities.isNone
    /\ selected_product_name # NoProduct
    /\ strategic_alignment # NoAlignment
    /\ report # <<>>
    /\ show_manual_form
    /\ ENABLED Reset

\* C11: on the dashboard the model, the scaler and the dataset are all set.
C11_DashboardHasAdapterAndDataset ==
    page = "dashboard"
    => /\ model # NoArtifact
       /\ scaler # NoArtifact
       /\ ~df_opportunities.isNone

\* a dashboard over a prediction base without rows: the dataset is empty,
\* not None
C11_Witness ==
    /\ page = "dashboard"
    /\ model = "best_export_model.pkl"
    /\ scaler = "scaler.pkl"
    /\ ~df_opportunities.isNone
    /\ df_opportunities.rows = <<>>

\* s is an initial segment of t
IsPrefix(s, t) == Len(s) <= Len(t) /\ SubSeq(t, 1, Len(s)) = s

\* C12: across every step that is not a reset the report of before is a
\* prefix of the report of after: no entry is changed, moved or removed.
C12_ReportAppendOnly ==
    [][ ~IsReset => IsPrefix(report, report') ]_vars

\* an entry added under alignment 1 for the imported 'b' with its entered
\* PCI is still in the report after the alignment became 0 and a manual
\* record was merged
C12_Witness ==
    /\ Len(report) >= 1
    /\ report[1]["PRODUIT"] = "b"
    /\ report[1]["CODE SH"] = <<1, 2>>
    /\ report[1]["ALIGNEMENT"] = "OUI"
    /\ report[1]["SCORE FINAL"] = FormatPercent(850)
    /\ strategic_alignment = 0
    /\ Len(df_opportunities.rows) = 2

\* C13: add-to-report appends exactly one entry, also when an equal entry is
\* already in the report; the entry holds the selected name, the HS code of
\* the row the selection resolves to, OUI for alignment 1 and NON otherwise,
\* and the verdict of the probability on display.
C13_AddAppendsOneEntry ==
    [][ AddToReport
        => /\ Len(report') = Len(report) + 1
           /\ SubSeq(report', 1, Len(report)) = report
           /\ LET entry == report'[Len(report')]
              IN  /\ entry["PRODUIT"] = selected_product_name
                  /\ entry["CODE SH"] = CurrentRow["CODE SH"]
                  /\ entry["ALIGNEMENT"] = "OUI" <=> strategic_alignment = 1
                  /\ entry["ALIGNEMENT"] = "NON" <=> strategic_alignment # 1
                  /\ entry["SCORE FINAL"] = <<proba_succes \div 10, proba_succes % 10>>
                  /\ entry["VERDICT"] = "ÉLEVÉ" <=> proba_succes > 500
                  /\ entry["VERDICT"] = "FAIBLE" <=> proba_succes <= 500
      ]_vars

\* the same product added twice: two equal entries
C13_Witness ==
    /\ Len(report) = 2
    /\ report[1] = report[2]
    /\ report[2]["PRODUIT"] = selected_product_name

\* C14: the verdict is ÉLEVÉ exactly for a probability above 0.5, so 0.5
\* itself gives FAIBLE, and the verdict of a new report entry is the verdict
\* on display for the same probability.
C14_VerdictThreshold ==
    [][ /\ proba_succes # NotComputed
           => /\ verdict_display(proba_succes) = "ÉLEVÉ" <=> proba_succes > 500
              /\ verdict_display(proba_succes) = "FAIBLE" <=> proba_succes <= 500
        /\ AddToReport
           => /\ report'[Len(report')]["VERDICT"] = verdict_display(proba_succes)
              /\ report'[Len(report')]["VERDICT"] = "ÉLEVÉ" <=> proba_succes > 500
      ]_vars

\* a probability of exactly 0.5 on display and in the report as FAIBLE
C14_Witness ==
    /\ proba_succes = 500
    /\ Len(report) >= 1
    /\ report[Len(report)]["SCORE FINAL"] = <<50, 0>>
    /\ report[Len(report)]["VERDICT"] = "FAIBLE"

\* a click on one of the two alignment buttons
AlignmentStep == \E value \in {0, 1} : SetAlignment(value)

\* a submit of the manual form
ManualStep ==
    \E nom_produit \in ManualNames, indicators \in ManualIndicators,
       alignement_manual \in {0, 1} :
       ManualSubmit(nom_produit, indicators, alignement_manual)

\* C15: the alignment changes only by an alignment button, a manual-entry
\* submit or a reset, and once it is 0 or 1 only a reset unsets it; it is
\* kept by selection changes, filter changes, missing-value submissions and
\* report additions.
C15_AlignmentPersists ==
    [][ /\ strategic_alignment' # strategic_alignment
           => AlignmentStep \/ ManualStep \/ IsReset
        /\ (strategic_alignment \in {0, 1} /\ strategic_alignment' = NoAlignment)
           => IsReset
        /\ ( \/ \E index \in 1..MaxRows : SelectProduct(index)
             \/ \E text \in Filters : SetFilter(text)
             \/ MissingDataForm
             \/ AddToReport )
           => strategic_alignment' = strategic_alignment
      ]_vars

\* alignment 1, set by the button for a row whose own cell is 0, is still 1
\* after a missing-value submission, a report addition and the selection of
\* the second product
C15_Witness ==
    /\ strategic_alignment = 1
    /\ Len(df_opportunities.rows) = 2
    /\ df_opportunities.rows[1][FEATURES_NAMES[6]] = 0
    /\ df_opportunities.rows[1][FEATURES_NAMES[5]] = Entered
    /\ report # <<>>
    /\ select_index = 2
    /\ ~show_manual_form

\* the names of the rows of df whose HS code contains text
FilteredNames(df, text) ==
    {df.rows[i]["Produit"] :
        i \in {j \in 1..Len(df.rows) : Contains(df.rows[j]["CODE SH"], text)}}

LineOf(sheet, k, e) ==
    /\ sheet[k][1] = e["PRODUIT"]
    /\ sheet[k][2] = e["CODE SH"]
    /\ sheet[k][3] = e["ALIGNEMENT"]
    /\ sheet[k][4] = e["SCORE FINAL"]
    /\ sheet[k][5] = e["VERDICT"]

\* C17: a download leaves every session field as it was and hands over the
\* entries of the report in the order they were added; the data the button
\* carries changes only when the report does, so that two downloads with no
\* addition between them hand over the same content.
C17_ExportPureAndOrdered ==
    [][ /\ Download
           => /\ session' = session
              /\ Len(downloaded') = Len(report) + 1
              /\ \A i \in 1..Len(report) : LineOf(downloaded', i + 1, report[i])
              /\ downloaded # NoData => downloaded' = downloaded
        /\ (report' = report /\ excel_data # NoData) => excel_data' = excel_data
      ]_vars

\* a file downloaded from a report of two entries that differ
C17_Witness ==
    /\ downloaded # NoData
    /\ Len(report) = 2
    /\ report[1] # report[2]
    /\ Len(downloaded) = 3

\* C18: a configuration submit that does not reach the dashboard leaves every
\* session field as it was, so that on the configuration page the model, the
\* scaler and the dataset are still unset.
C18_FailedSubmitChangesNothing ==
    [][ \A train_file \in TrainUploads, predict_file \in PredictUploads,
           model_pkl \in BOOLEAN, scaler_pkl \in BOOLEAN :
           (ConfigSubmit(train_file, predict_file, model_pkl, scaler_pkl)
            /\ page' = "config")
           => /\ session' = session
              /\ model' = NoArtifact
              /\ scaler' = NoArtifact
              /\ df_opportunities' = NoneDF
      ]_vars

\* the value of column c on row r, an empty cell when r has no such column
Cell(r, c) == IF c \in DOMAIN r THEN r[c] ELSE NaN

\* C19: a submit of the missing-data form changes only the cells reported
\* missing on the first row with the selected name; every other row, the
\* other rows of that name included, keeps each of its cells, filled or
\* empty.
C19_OnlyResolvedRowChanges ==
    [][ \A new_values \in [Range(missing_features) -> SuppliedValues] :
           SubmitMissing(new_values)
           => LET index == product_index(df_opportunities, selected_product_name)
                  first == Min(index)
              IN  /\ Len(df_opportunities'.rows) = Len(df_opportunities.rows)
                  /\ \A i \in 1..Len(df_opportunities.rows) :
                       \A c \in AllColumns :
                          (i # first \/ c \notin DOMAIN new_values)
                          => Cell(df_opportunities'.rows[i], c)
                                = Cell(df_opportunities.rows[i], c)
      ]_vars

\* the selection is None or the name of a row of the dataset
SelectionInDataset(df, name) ==
    \/ name = NoProduct
    \/ /\ ~df.isNone
       /\ "Produit" \in df.columns
       /\ \E i \in 1..Len(df.rows) : df.rows[i]["Produit"] = name

\* C20: in every state the selection is None or the name of a row of the
\* dataset, and on the dashboard the page, the model and the scaler change
\* only by the reset button.
C20_SelectionValidAndDashboardStable ==
    [][ /\ SelectionInDataset(df_opportunities, selected_product_name)
        /\ SelectionInDataset(df_opportunities', selected_product_name')
        /\ page = "dashboard"
           => \/ Reset
              \/ /\ page' = "dashboard"
                 /\ model' = model
                 /\ scaler' = scaler
      ]_vars

\* on the dashboard, with the loaded model in place, the selection is the
\* empty name of a row merged from the manual form
C20_Witness ==
    /\ page = "dashboard"
    /\ model = "best_export_model.pkl"
    /\ scaler = "scaler.pkl"
    /\ selected_product_name = ""
    /\ df_opportunities.rows[1]["Produit"] = ""
    /\ df_opportunities.rows[1]["CODE SH"] = ManualCode
    /\ search_hs = <<>>

====
